---- MODULE Spec2Model ----
(***************************************************************************)
(* TerminalChatWidget                                                      *)
(* (src/vs/workbench/contrib/terminalContrib/chat/browser/                 *)
(*  terminalChatWidget.ts): the widgets of two terminals, the context-key  *)
(* services they publish to, the model service they resolve the response   *)
(* document from, and the pending continuation of that resolution.         *)
(***************************************************************************)
EXTENDS Integers, FiniteSets, Sequences, TLC

(* ----------------------------- bounds -------------------------------- *)

\* request ids handed to the render calls are 1..MaxRequestId
MaxRequestId == 1

(* ------------------------- program constants ------------------------- *)

LayoutWidth == 400
LayoutHeight == 150

(* ------------------------------ inputs -------------------------------- *)

\* Two widgets, each on a terminal of its own; the terminal's instanceId is
\* the widget's index.
Widgets == {1, 2}
\* The widget whose render, input and progress operations are exercised; the
\* other widget is revealed and hidden only.
Driven == {1}

CodeBlocks == {"echo hi", "echo bye"}
Messages == {"hello", "bye"}
\* the absent argument of setValue(value?)
Undefined == "<undefined>"
Values == {Undefined, "", "foo", "bar"}
ProgressKinds == {Undefined, "content", "markdownContent", "other"}
RequestIds == 1..MaxRequestId

(* -------------------------- value shapes ----------------------------- *)

NoDimension == <<0, 0>>
FixedDimension == <<LayoutWidth, LayoutHeight>>

\* URI.from({ path: `terminal-inline-chat-${instanceId}`,
\*            scheme: 'terminal-inline-chat', fragment: codeBlock })
ResponseUri(instanceId, codeBlock) ==
    [scheme |-> "terminal-inline-chat", path |-> instanceId, fragment |-> codeBlock]
\* the null of Promise<ITextModel | null>, and the viewer that has no model
NullModel == [scheme |-> "", path |-> 0, fragment |-> ""]
Uris == {ResponseUri(w, c) : w \in Widgets, c \in CodeBlocks}

\* _responseWidget: CodeEditorWidget | undefined
NoViewer == [exists |-> FALSE, id |-> 0, model |-> NullModel, layout |-> NoDimension]

\* The context-key services: the injected one, and the one scoped to the
\* container of widget w.
HostService == 0
ScopedService(w) == w
Services == {HostService} \cup {ScopedService(w) : w \in Widgets}

VARIABLES
    widgetHide,       \* [w]: _widgetContainer carries the class 'hide'
    responseClasses,  \* [w]: the classes 'message', 'hide' of _responseElement
    responseText,     \* [w]: the text node textContent put in _responseElement
    viewerInDom,      \* [w]: the viewer's view node is a child of _responseElement
    responseWidget,   \* [w]: _responseWidget
    viewersCreated,   \* [w]: CodeEditorWidgets created for _responseElement
    pending,          \* [w]: the queued continuation of _getTextModel(...).then
    models,           \* IModelService: uri -> the model registered for it
    inlineValue,      \* [w]: _inlineChatWidget.value
    inlineLayout,     \* [w]: the dimension _inlineChatWidget was laid out at
    inlineProgress,   \* [w]: the flag given to _inlineChatWidget.updateProgress
    contextKeys,      \* [service]: the values of chatFocused and chatVisible
    focus,            \* which element has the input focus
    accepted,         \* the last IChatAccessibilityService.acceptResponse
    disposed,         \* [w]: Disposable.dispose() was called
    lastCommand,      \* [w]: the codeBlock of the last renderTerminalCommand
    lastRender,       \* [w]: the render operation called last, "" before any
    lastOp            \* the operation that produced this state

vars == <<widgetHide, responseClasses, responseText, viewerInDom, responseWidget,
          viewersCreated, pending, models, inlineValue, inlineLayout,
          inlineProgress, contextKeys, focus, accepted, disposed, lastCommand,
          lastRender, lastOp>>

\* the state of widget w that the continuation may touch, besides the queue
viewerState == <<responseWidget, viewerInDom, models, viewersCreated>>
\* everything a widget owns except the viewer and the queue
domState == <<widgetHide, responseClasses, responseText, inlineValue,
              inlineLayout, inlineProgress, contextKeys, focus, accepted,
              disposed, lastCommand, lastRender>>

Op(name, w, arg) == [op |-> name, w |-> w, arg |-> arg]

(* ---------------------------- constructor ---------------------------- *)

\* TerminalContextKeys.chatFocused / chatVisible are boolean keys that are
\* unset (false) until reveal() sets them.
ChatKeyDefault == FALSE

\* The service chatFocused and chatVisible are bound to:
\* TerminalContextKeys.chatFocused.bindTo(this._contextKeyService), the
\* injected service and not scopedContextKeyService.
BindTarget(w) == HostService

\* _chatWidgetFocused.get(), _chatWidgetVisible.get()
ChatFocused(w) == contextKeys[BindTarget(w)].chatFocused
ChatVisible(w) == contextKeys[BindTarget(w)].chatVisible

Init ==
    /\ widgetHide = [w \in Widgets |-> FALSE]
    /\ responseClasses = [w \in Widgets |-> {}]
    /\ responseText = [w \in Widgets |-> ""]
    /\ viewerInDom = [w \in Widgets |-> FALSE]
    /\ responseWidget = [w \in Widgets |-> NoViewer]
    /\ viewersCreated = [w \in Widgets |-> 0]
    /\ pending = [w \in Widgets |-> [queued |-> FALSE, model |-> NullModel]]
    /\ models = [u \in Uris |-> [exists |-> FALSE, value |-> ""]]
    /\ inlineValue = [w \in Widgets |-> ""]
    /\ inlineLayout = [w \in Widgets |-> NoDimension]
    /\ inlineProgress = [w \in Widgets |-> FALSE]
    /\ contextKeys = [s \in Services |->
                        [chatFocused |-> ChatKeyDefault, chatVisible |-> ChatKeyDefault]]
    /\ focus = [kind |-> "none", w |-> 0]
    /\ accepted = [text |-> "", requestId |-> 0]
    /\ disposed = [w \in Widgets |-> FALSE]
    /\ lastCommand = [w \in Widgets |-> ""]
    /\ lastRender = [w \in Widgets |-> ""]
    /\ lastOp = Op("constructor", 0, "")

(* ------------------------------ helpers ------------------------------ *)

Upd(f, w, v) == [f EXCEPT ![w] = v]

\* _getTextModel(resource): the model registered for the resource when there
\* is one, else the model createModel(resource.fragment, null, resource)
\* registers, or the null its result type admits. The set of
\* <<resolved model, model service afterwards>>.
GetTextModel(resource) ==
    IF models[resource].exists
    THEN {<<resource, models>>}
    ELSE {<<resource, Upd(models, resource,
                          [exists |-> TRUE, value |-> resource.fragment])>>,
          <<NullModel, models>>}

\* CodeEditorWidget.setValue(newValue) on the viewer: writes the attached
\* model; a viewer without a model has nothing to write.
ViewerSetValue(viewer, newValue) ==
    IF viewer.model = NullModel
    THEN models
    ELSE Upd(models, viewer.model, [exists |-> TRUE, value |-> newValue])

\* what the response viewer of w shows: the value of its attached model
ViewerContent(w) ==
    IF responseWidget[w].exists /\ responseWidget[w].model # NullModel
    THEN models[responseWidget[w].model].value
    ELSE ""

(* ----------------------------- operations ---------------------------- *)

\* renderTerminalCommand, with the test of line 87 as the parameter create
RenderCommand(w, codeBlock, requestId, create) ==
    /\ responseClasses' = Upd(responseClasses, w, responseClasses[w] \ {"message", "hide"})
    /\ accepted' = [text |-> codeBlock, requestId |-> requestId]
    /\ IF create
       THEN /\ responseWidget' = Upd(responseWidget, w,
                  [exists |-> TRUE, id |-> viewersCreated[w] + 1,
                   model |-> NullModel, layout |-> NoDimension])
            /\ viewersCreated' = Upd(viewersCreated, w, viewersCreated[w] + 1)
            /\ \E r \in GetTextModel(ResponseUri(w, codeBlock)) :
                  /\ pending' = Upd(pending, w, [queued |-> TRUE, model |-> r[1]])
                  /\ models' = r[2]
       ELSE /\ models' = ViewerSetValue(responseWidget[w], codeBlock)
            /\ UNCHANGED <<responseWidget, viewersCreated, pending>>
    /\ lastCommand' = Upd(lastCommand, w, codeBlock)
    /\ lastRender' = Upd(lastRender, w, "renderTerminalCommand")
    /\ lastOp' = Op("renderTerminalCommand", w, codeBlock)
    /\ UNCHANGED <<widgetHide, responseText, viewerInDom, inlineValue, inlineLayout,
                   inlineProgress, contextKeys, focus, disposed>>

renderTerminalCommandRecreate(w, codeBlock, requestId) ==
    RenderCommand(w, codeBlock, requestId, TRUE)

renderTerminalCommand(w, codeBlock, requestId) ==
    RenderCommand(w, codeBlock, requestId, ~responseWidget[w].exists)

\* the continuation given to _getTextModel(...).then, with the guard of
\* line 90 as the parameter drop
Continuation(w, drop) ==
    /\ pending[w].queued
    /\ pending' = Upd(pending, w, [queued |-> FALSE, model |-> NullModel])
    /\ IF drop
       THEN UNCHANGED <<responseWidget, viewerInDom>>
       ELSE \* setModel(model) builds the view in _responseElement;
            \* layout(new Dimension(400, 150))
            /\ responseWidget' = Upd(responseWidget, w,
                  [responseWidget[w] EXCEPT !.model = pending[w].model,
                                            !.layout = FixedDimension])
            /\ viewerInDom' = Upd(viewerInDom, w, pending[w].model # NullModel)
    /\ lastOp' = Op("continuation", w,
                    IF pending[w].model = NullModel THEN "null" ELSE "model")
    /\ UNCHANGED <<models, viewersCreated>>
    /\ UNCHANGED domState

onTextModelUnguarded(w) ==
    Continuation(w, FALSE)

onTextModel(w) ==
    Continuation(w, pending[w].model = NullModel \/ ~responseWidget[w].exists)

renderMessageClearsInput(w, message, requestId) ==
    /\ responseClasses' = Upd(responseClasses, w, (responseClasses[w] \ {"hide"}) \cup {"message"})
    /\ accepted' = [text |-> message, requestId |-> requestId]
    /\ responseText' = Upd(responseText, w, message)
    /\ viewerInDom' = Upd(viewerInDom, w, FALSE)
    /\ inlineValue' = Upd(inlineValue, w, "")
    /\ lastRender' = Upd(lastRender, w, "renderMessage")
    /\ lastOp' = Op("renderMessage", w, message)
    /\ UNCHANGED <<widgetHide, responseWidget, viewersCreated, pending, models,
                   inlineLayout, inlineProgress, contextKeys, focus,
                   disposed, lastCommand>>

renderMessage(w, message, requestId) ==
    /\ responseClasses' = Upd(responseClasses, w, (responseClasses[w] \ {"hide"}) \cup {"message"})
    /\ accepted' = [text |-> message, requestId |-> requestId]
    \* textContent = message replaces every child of _responseElement
    /\ responseText' = Upd(responseText, w, message)
    /\ viewerInDom' = Upd(viewerInDom, w, FALSE)
    /\ lastRender' = Upd(lastRender, w, "renderMessage")
    /\ lastOp' = Op("renderMessage", w, message)
    /\ UNCHANGED <<widgetHide, responseWidget, viewersCreated, pending, models,
                   inlineValue, inlineLayout, inlineProgress, contextKeys, focus,
                   disposed, lastCommand>>

\* reveal, setting the keys of the list `keys` to true
Reveal(w, keys) ==
    /\ inlineLayout' = Upd(inlineLayout, w, FixedDimension)
    /\ widgetHide' = Upd(widgetHide, w, FALSE)
    /\ contextKeys' = Upd(contextKeys, BindTarget(w),
          [k \in {"chatFocused", "chatVisible"} |->
              IF k \in keys THEN TRUE ELSE contextKeys[BindTarget(w)][k]])
    /\ focus' = [kind |-> "chat", w |-> w]
    /\ lastOp' = Op("reveal", w, "")
    /\ UNCHANGED <<responseClasses, responseText, viewerInDom, inlineValue,
                   inlineProgress, accepted, disposed, lastCommand, lastRender>>
    /\ UNCHANGED <<viewerState, pending>>

revealFocusedOnly(w) ==
    Reveal(w, {"chatFocused"})

reveal(w) ==
    Reveal(w, {"chatFocused", "chatVisible"})

hide(w) ==
    /\ responseClasses' = Upd(responseClasses, w, responseClasses[w] \cup {"hide"})
    /\ widgetHide' = Upd(widgetHide, w, TRUE)
    /\ contextKeys' = Upd(contextKeys, BindTarget(w),
          [chatFocused |-> FALSE, chatVisible |-> FALSE])
    /\ focus' = [kind |-> "terminal", w |-> w]
    /\ lastOp' = Op("hide", w, "")
    /\ UNCHANGED <<responseText, viewerInDom, inlineValue, inlineLayout,
                   inlineProgress, accepted, disposed, lastCommand, lastRender>>
    /\ UNCHANGED <<viewerState, pending>>

cancel(w) ==
    /\ inlineValue' = Upd(inlineValue, w, "")
    /\ lastOp' = Op("cancel", w, "")
    /\ UNCHANGED <<widgetHide, responseClasses, responseText, inlineLayout,
                   inlineProgress, contextKeys, focus, accepted, disposed,
                   lastCommand, lastRender>>
    /\ UNCHANGED <<viewerState, pending>>

input(w) == inlineValue[w]

\* setValue, with the test !value of line 139 as the parameter falsy
SetValue(w, value, falsy) ==
    /\ inlineValue' = Upd(inlineValue, w, IF value = Undefined THEN "" ELSE value)
    /\ responseClasses' = Upd(responseClasses, w,
          IF falsy THEN responseClasses[w] \cup {"hide"} ELSE responseClasses[w])
    /\ lastOp' = Op("setValue", w, value)
    /\ UNCHANGED <<widgetHide, responseText, inlineLayout, inlineProgress,
                   contextKeys, focus, accepted, disposed, lastCommand, lastRender>>
    /\ UNCHANGED <<viewerState, pending>>

setValueUndefinedOnly(w, value) ==
    SetValue(w, value, value = Undefined)

setValue(w, value) ==
    SetValue(w, value, value = Undefined \/ value = "")

updateProgress(w, kind) ==
    /\ inlineProgress' = Upd(inlineProgress, w, kind \in {"content", "markdownContent"})
    /\ lastOp' = Op("updateProgress", w, "")
    /\ UNCHANGED <<widgetHide, responseClasses, responseText, inlineValue,
                   inlineLayout, contextKeys, focus, accepted, disposed,
                   lastCommand, lastRender>>
    /\ UNCHANGED <<viewerState, pending>>

layout(w, width) ==
    /\ lastOp' = Op("layout", w, "")
    /\ UNCHANGED <<viewerState, pending>>
    /\ UNCHANGED domState

\* Disposable.dispose(): disposes what _register registered (the scoped
\* context-key service, the focus tracker); the class overrides nothing and
\* leaves every field as it is.
dispose(w) ==
    /\ ~disposed[w]
    /\ disposed' = Upd(disposed, w, TRUE)
    /\ lastOp' = Op("dispose", w, "")
    /\ UNCHANGED <<widgetHide, responseClasses, responseText, inlineValue,
                   inlineLayout, inlineProgress, contextKeys, focus, accepted,
                   lastCommand, lastRender>>
    /\ UNCHANGED <<viewerState, pending>>

Next ==
    \/ \E w \in Driven, c \in CodeBlocks, r \in RequestIds : renderTerminalCommand(w, c, r)
    \/ \E w \in Driven, m \in Messages, r \in RequestIds : renderMessage(w, m, r)
    \/ \E w \in Driven : onTextModel(w)
    \/ \E w \in Widgets : reveal(w)
    \/ \E w \in Widgets : hide(w)
    \/ \E w \in Driven : cancel(w)
    \/ \E w \in Driven, v \in Values : setValue(w, v)
    \/ \E w \in Driven, k \in ProgressKinds : updateProgress(w, k)
    \/ \E w \in Driven, width \in {200, 400} : layout(w, width)
    \/ \E w \in Driven : dispose(w)

Spec == Init /\ [][Next]_vars

(* ------------------------------ display ------------------------------ *)

\* _responseElement.textContent: the text of its children in order
ResponseTextContent(w) ==
    IF viewerInDom[w] THEN <<responseText[w], ViewerContent(w)>> ELSE <<responseText[w]>>

ResponseShown(w) == "hide" \notin responseClasses[w]
\* the plain-text message is on display in the response container
MessageDisplayed(w) == ResponseShown(w) /\ responseText[w] # ""
\* the code-response view is on display in the response container
CodeViewDisplayed(w) == ResponseShown(w) /\ viewerInDom[w]

After(name, w) == lastOp.op = name /\ lastOp.w = w

(* ------------------------------- claims ------------------------------ *)

\* C1: right after reveal() both context-key flags are true and the widget
\* container is not hidden; right after hide() both flags are false and the
\* widget container and the response container are hidden.
C1_RevealHidePostconditions ==
    \A w \in Widgets :
        /\ After("reveal", w) =>
              ChatFocused(w) /\ ChatVisible(w) /\ ~widgetHide[w]
        /\ After("hide", w) =>
              /\ ~ChatFocused(w) /\ ~ChatVisible(w)
              /\ widgetHide[w] /\ ~ResponseShown(w)

\* a hide() of a widget that was revealed and whose response was on display
C1_Witness ==
    /\ After("hide", 1)
    /\ inlineLayout[1] = FixedDimension
    /\ responseWidget[1].model # NullModel
    /\ widgetHide[1] /\ ~ResponseShown(1)

\* C2: the first renderTerminalCommand creates exactly one viewer, bound to
\* a document named after the terminal instance id; later calls reuse it, and
\* once the first call's document resolution has completed, whenever the
\* later calls came, the viewer's content is the code block of the most
\* recent call.
C2_ViewerShowsLatestCommand ==
    \A w \in Widgets :
        responseWidget[w].model # NullModel =>
            /\ viewersCreated[w] = 1
            /\ responseWidget[w].model.path = w
            /\ ViewerContent(w) = lastCommand[w]

\* C3: in every state reachable from construction, the state right after
\* construction included, the flags 'chat visible' and 'chat focused' are
\* true exactly when the widget container does not carry the hide class.
C3_FlagsMatchContainer ==
    \A w \in Widgets :
        /\ ChatVisible(w) = ~widgetHide[w]
        /\ ChatFocused(w) = ~widgetHide[w]

\* C4: when the widget is disposed while the document resolution is pending,
\* the continuation that runs later is a no-op: it attaches no model, lays
\* nothing out and changes no other state of the widget.
C4_ContinuationAfterDisposeIsNoOp ==
    [][\A w \in Widgets :
          (disposed[w] /\ lastOp'.op = "continuation" /\ lastOp'.w = w) =>
              UNCHANGED <<viewerState, domState>>]_vars

\* C5: a widget has at most one response viewer, and once created no later
\* operation destroys, clears or replaces it.
C5_ViewerNeverReplaced ==
    [][\A w \in Widgets :
          /\ viewersCreated'[w] <= 1
          /\ responseWidget[w].exists =>
                /\ responseWidget'[w].exists
                /\ responseWidget'[w].id = responseWidget[w].id]_vars

\* the one viewer, created for "echo hi", shows "echo bye" after a second
\* render, a message render and a hide
C5_Witness ==
    /\ responseWidget[1].exists /\ viewersCreated[1] = 1
    /\ responseWidget[1].model = ResponseUri(1, "echo hi")
    /\ ViewerContent(1) = "echo bye"
    /\ responseText[1] # ""
    /\ After("hide", 1)

\* C6: after any interleaving of the two render calls the response
\* container is in the mode of the most recent one ('message' is set iff the
\* last render call was renderMessage), and the plain-text message and the
\* code-response view are never both on display in it.
C6_ExclusiveDisplayModes ==
    \A w \in Widgets :
        /\ lastRender[w] # "" =>
              (("message" \in responseClasses[w]) <=> (lastRender[w] = "renderMessage"))
        /\ ~(MessageDisplayed(w) /\ CodeViewDisplayed(w))

\* C7: reveal() or hide() on one widget never changes the flag values
\* published for the other widget.
C7_FlagsScopedToWidget ==
    [][\A w \in Widgets :
          (lastOp'.op \in {"reveal", "hide"} /\ lastOp'.w # w) =>
              /\ ChatFocused(w)' = ChatFocused(w)
              /\ ChatVisible(w)' = ChatVisible(w)]_vars

\* C8: the continuation attaches the model and lays the viewer out at
\* 400x150 only if the model is not null and the viewer reference is
\* present; otherwise the pending render is dropped with no state change.
C8_GuardedContinuation ==
    [][\A w \in Widgets :
          (lastOp'.op = "continuation" /\ lastOp'.w = w) =>
              IF pending[w].model = NullModel \/ ~responseWidget[w].exists
              THEN UNCHANGED <<viewerState, domState>>
              ELSE /\ responseWidget'[w].model = pending[w].model
                   /\ responseWidget'[w].layout = FixedDimension
                   /\ responseWidget'[w].id = responseWidget[w].id
                   /\ UNCHANGED <<models, viewersCreated, domState>>]_vars

\* a resolution to null was dropped: the viewer has no model and no layout
C8_Witness ==
    /\ lastOp = Op("continuation", 1, "null")
    /\ responseWidget[1].exists
    /\ responseWidget[1].model = NullModel
    /\ responseWidget[1].layout = NoDimension

\* C9: setValue(v) then input() gives v; setValue() and setValue("") leave
\* input() empty and hide the response container; setValue of a non-empty
\* value leaves the response container's visibility as it was.
C9_SetValueInput ==
    [][\A w \in Widgets :
          (lastOp'.op = "setValue" /\ lastOp'.w = w) =>
              LET v == lastOp'.arg IN
              /\ input(w)' = (IF v = Undefined THEN "" ELSE v)
              /\ v \in {Undefined, ""} => ~ResponseShown(w)'
              /\ v \notin {Undefined, ""} => (ResponseShown(w)' = ResponseShown(w))]_vars

\* setValue("") on a typed-in widget hid a response that was rendered
C9_Witness ==
    /\ lastOp = Op("setValue", 1, "")
    /\ input(1) = ""
    /\ lastRender[1] # ""
    /\ ~widgetHide[1] /\ ~ResponseShown(1)

\* C10: renderMessage(m, id) leaves input(), both context-key flags and the
\* widget container's visibility as they were, and leaves the response
\* container shown, in 'message' mode, with text content m.
C10_RenderMessageFrame ==
    [][\A w \in Widgets :
          (lastOp'.op = "renderMessage" /\ lastOp'.w = w) =>
              /\ input(w)' = input(w)
              /\ contextKeys' = contextKeys
              /\ widgetHide' = widgetHide
              /\ ResponseShown(w)'
              /\ "message" \in responseClasses'[w]
              /\ ResponseTextContent(w)' = <<lastOp'.arg>>]_vars

\* a message rendered over a typed input and an attached code viewer
C10_Witness ==
    /\ lastOp = Op("renderMessage", 1, "hello")
    /\ input(1) = "foo"
    /\ responseWidget[1].model # NullModel
    /\ ResponseTextContent(1) = <<"hello">>

====
